---- MODULE Spec2Model ----
(***************************************************************************)
(* Pick'em league backend: the Picks, Games, Competitions, Scores,         *)
(* SeasonStandings, Leagues, LeagueMembers and Notifications tables, the   *)
(* HTTP handlers that write them and the shared connection pool.  Every    *)
(* handler is one action; a handler's SQL batch is one step.  Tables are   *)
(* bags of rows, so a duplicate row is representable.                      *)
(***************************************************************************)
EXTENDS Integers, Sequences, FiniteSets, Bags, TLC

VARIABLES games, picks, scores, comps, standings, lastCall, nops, runs,
          pickCalls, leagues, members, memberCalls, notifications,
          pool, tokenExpiry, pools, handlers

\* the league membership tables and the createLeagueMember requests in flight
memberVars == <<leagues, members, memberCalls>>

\* the module state of getConnection, the pool objects and their users
connVars == <<pool, tokenExpiry, pools, handlers>>

\* what the handlers of picks, games, scores and standings never touch
others == <<pickCalls, memberVars, notifications, connVars>>

vars == <<games, picks, scores, comps, standings, lastCall, nops, runs, others>>

(***************************************************************************)
(* Bounds of the exploration.                                              *)
(***************************************************************************)
\* number of handler invocations explored from an initial database
MaxOps == 4
\* largest team score a request carries
MaxScore == 1

(***************************************************************************)
(* Program constants.                                                      *)
(***************************************************************************)
\* SQL NULL in an integer, bit or decimal column (and a missing JSON field)
NULL == -1
\* CK_Picks_ConfidencePoints CHECK (ConfidencePoints BETWEEN 1 AND 20)
MinConfidence == 1
MaxConfidence == 20

Users == {"u1", "u2", "u3"}
\* the users that submit picks
Players == {"u1", "u2"}
Competitions == {"c1", "c2", "c3"}
Leagues == {"l1", "l2"}
Games == {"g1", "g2", "g3"}
Teams == {"A", "B"}
GameStatuses == {"Scheduled", "InProgress", "Final", "Postponed", "Cancelled"}
CompetitionStatuses == {"Upcoming", "Active", "Locked", "Completed", "Cancelled"}

(***************************************************************************)
(* SQL helpers.                                                            *)
(***************************************************************************)
\* a > b in a WHEN/WHERE: UNKNOWN (a NULL operand) does not satisfy it
Gt(a, b) == a # NULL /\ b # NULL /\ a > b

\* COALESCE(@param, Column)
Coalesce(param, column) == IF param # NULL THEN param ELSE column

\* ISNULL(x, 0)
IsNull0(x) == IF x = NULL THEN 0 ELSE x

RECURSIVE SumOf(_)
\* the sum of the values of a function with a finite domain
SumOf(f) ==
    IF DOMAIN f = {} THEN 0
    ELSE LET r == CHOOSE x \in DOMAIN f : TRUE
         IN  f[r] + SumOf([x \in DOMAIN f \ {r} |-> f[x]])

\* SUM(F(row)) over the rows S of table B, each row counted as often as it occurs
SumRows(S, B, F(_)) == SumOf([r \in S |-> F(r) * CopiesIn(r, B)])

\* the rows of table B that satisfy WHERE
Where(B, W(_)) == {r \in BagToSet(B) : W(r)}

\* table B with every row r replaced by F(r); rows that become equal add up
MapRows(B, F(_)) ==
    LET S == BagToSet(B)
    IN  [t \in {F(r) : r \in S} |-> SumOf([r \in {x \in S : F(x) = t} |-> CopiesIn(r, B)])]

\* UPDATE B SET row = F(row) WHERE W(row)
UpdateWhere(B, W(_), F(_)) == MapRows(B, LAMBDA r : IF W(r) THEN F(r) ELSE r)

\* DELETE FROM B WHERE W(row)
DeleteWhere(B, W(_)) == [r \in {x \in BagToSet(B) : ~W(x)} |-> CopiesIn(r, B)]

(***************************************************************************)
(* calculateCompetitionScores, statement 1: grade the picks.               *)
(***************************************************************************)
\* as PickedWinner, with >= for >: a tie grades both picks correct
PickedWinnerOrTie(p, g) ==
    /\ g.Status = "Final"
    /\ g.HomeTeamScore # NULL /\ g.AwayTeamScore # NULL
    /\ \/ (p.PickedTeam = g.HomeTeam /\ g.HomeTeamScore >= g.AwayTeamScore)
       \/ (p.PickedTeam = g.AwayTeam /\ g.AwayTeamScore >= g.HomeTeamScore)

\* the WHEN condition shared by both CASE expressions
PickedWinner(p, g) ==
    /\ g.Status = "Final"
    /\ \/ (p.PickedTeam = g.HomeTeam /\ Gt(g.HomeTeamScore, g.AwayTeamScore))
       \/ (p.PickedTeam = g.AwayTeam /\ Gt(g.AwayTeamScore, g.HomeTeamScore))

\* SET IsCorrect = CASE ... THEN 1 WHEN g.Status = 'Final' THEN 0 ELSE NULL END
GradeIsCorrect(p, g) ==
    IF PickedWinner(p, g) THEN 1
    ELSE IF g.Status = "Final" THEN 0
    ELSE NULL

\* as GradePointsEarned, with the points given for every pick of a Final game
GradePointsEarnedOnFinal(p, g) ==
    IF g.Status = "Final" THEN p.ConfidencePoints
    ELSE 0

\* PointsEarned = CASE ... THEN p.ConfidencePoints ELSE 0 END
GradePointsEarned(p, g) ==
    IF PickedWinner(p, g) THEN p.ConfidencePoints
    ELSE 0

\* as GradePicks, with AND p.IsCorrect IS NULL: a graded pick is never regraded
GradePicksUngradedOnly(P, G, c) ==
    UpdateWhere(P,
        LAMBDA p : p.CompetitionId = c /\ p.GameId \in DOMAIN G /\ p.IsCorrect = NULL,
        LAMBDA p : [p EXCEPT !.IsCorrect = GradeIsCorrect(p, G[p.GameId]),
                             !.PointsEarned = GradePointsEarned(p, G[p.GameId])])

\* UPDATE p SET ... FROM Picks p INNER JOIN Games g ON p.GameId = g.Id
\* WHERE p.CompetitionId = @competitionId
GradePicks(P, G, c) ==
    UpdateWhere(P,
        LAMBDA p : p.CompetitionId = c /\ p.GameId \in DOMAIN G,
        LAMBDA p : [p EXCEPT !.IsCorrect = GradeIsCorrect(p, G[p.GameId]),
                             !.PointsEarned = GradePointsEarned(p, G[p.GameId])])

(***************************************************************************)
(* calculateCompetitionScores, statement 2: MERGE the aggregated scores.   *)
(***************************************************************************)
\* as ScoreSource, with COUNT(IsCorrect) for COUNT(*): ungraded picks are not counted
ScoreSourceGradedOnly(P, c) ==
    LET rows == Where(P, LAMBDA p : p.CompetitionId = c)
        of(u) == {p \in rows : p.UserId = u}
    IN  {[CompetitionId |-> c,
          UserId |-> u,
          TotalPoints |-> SumRows(of(u), P, LAMBDA p : IsNull0(p.PointsEarned)),
          CorrectPicks |-> SumRows(of(u), P, LAMBDA p : IF p.IsCorrect = 1 THEN 1 ELSE 0),
          TotalPicks |-> SumRows(of(u), P, LAMBDA p : IF p.IsCorrect # NULL THEN 1 ELSE 0)] :
         u \in {p.UserId : p \in rows}}

\* SELECT ... FROM Picks WHERE CompetitionId = @competitionId GROUP BY UserId
ScoreSource(P, c) ==
    LET rows == Where(P, LAMBDA p : p.CompetitionId = c)
        of(u) == {p \in rows : p.UserId = u}
    IN  {[CompetitionId |-> c,
          UserId |-> u,
          TotalPoints |-> SumRows(of(u), P, LAMBDA p : IsNull0(p.PointsEarned)),
          CorrectPicks |-> SumRows(of(u), P, LAMBDA p : IF p.IsCorrect = 1 THEN 1 ELSE 0),
          TotalPicks |-> SumRows(of(u), P, LAMBDA p : 1)] : u \in {p.UserId : p \in rows}}

\* ON target.CompetitionId = source.CompetitionId AND target.UserId = source.UserId
ScoreMatch(t, s) == t.CompetitionId = s.CompetitionId /\ t.UserId = s.UserId

\* as MergeScores, with a plain INSERT ... SELECT for the MERGE
InsertScores(S, source) ==
    S (+) SetToBag({[CompetitionId |-> s.CompetitionId,
                     UserId |-> s.UserId,
                     TotalPoints |-> s.TotalPoints,
                     CorrectPicks |-> s.CorrectPicks,
                     TotalPicks |-> s.TotalPicks,
                     Rank |-> NULL] : s \in source})

\* as MergeScores, with WHEN MATCHED adding the new totals to the stored ones
MergeScoresAdding(S, source) ==
    LET matched(t) == {s \in source : ScoreMatch(t, s)}
        updated == UpdateWhere(S,
            LAMBDA t : matched(t) # {},
            LAMBDA t : LET s == CHOOSE x \in matched(t) : TRUE
                       IN  [t EXCEPT !.TotalPoints = @ + s.TotalPoints,
                                     !.CorrectPicks = @ + s.CorrectPicks,
                                     !.TotalPicks = s.TotalPicks])
        inserted == {[CompetitionId |-> s.CompetitionId,
                      UserId |-> s.UserId,
                      TotalPoints |-> s.TotalPoints,
                      CorrectPicks |-> s.CorrectPicks,
                      TotalPicks |-> s.TotalPicks,
                      Rank |-> NULL] :
                     s \in {x \in source : \A t \in BagToSet(S) : ~ScoreMatch(t, x)}}
    IN  updated (+) SetToBag(inserted)

\* MERGE Scores AS target USING source: WHEN MATCHED THEN UPDATE the three
\* totals, WHEN NOT MATCHED THEN INSERT (Rank takes the column default, NULL)
MergeScores(S, source) ==
    LET matched(t) == {s \in source : ScoreMatch(t, s)}
        updated == UpdateWhere(S,
            LAMBDA t : matched(t) # {},
            LAMBDA t : LET s == CHOOSE x \in matched(t) : TRUE
                       IN  [t EXCEPT !.TotalPoints = s.TotalPoints,
                                     !.CorrectPicks = s.CorrectPicks,
                                     !.TotalPicks = s.TotalPicks])
        inserted == {[CompetitionId |-> s.CompetitionId,
                      UserId |-> s.UserId,
                      TotalPoints |-> s.TotalPoints,
                      CorrectPicks |-> s.CorrectPicks,
                      TotalPicks |-> s.TotalPicks,
                      Rank |-> NULL] :
                     s \in {x \in source : \A t \in BagToSet(S) : ~ScoreMatch(t, x)}}
    IN  updated (+) SetToBag(inserted)

(***************************************************************************)
(* RANK() OVER (ORDER BY points DESC, correct DESC): the window function   *)
(* sorts the partition and numbers the rows, peers sharing the number of   *)
(* the first of them.  A sort key is the pair <<points, correct>>.         *)
(***************************************************************************)
\* key a sorts strictly before key b
KeyPrecedes(a, b) == a[1] > b[1] \/ (a[1] = b[1] /\ a[2] > b[2])

RECURSIVE OrderDesc(_)
\* the keys of bag K as a sorted sequence
OrderDesc(K) ==
    IF BagToSet(K) = {} THEN << >>
    ELSE LET first == CHOOSE k \in BagToSet(K) :
                          \A q \in BagToSet(K) : ~KeyPrecedes(q, k)
         IN  <<first>> \o OrderDesc(K (-) SetToBag({first}))

RECURSIVE DenseRankAt(_, _)
\* as RankAt, with DENSE_RANK() for RANK(): no rank is skipped after a tie
DenseRankAt(seq, i) ==
    IF i = 1 THEN 1
    ELSE IF KeyPrecedes(seq[i - 1], seq[i]) THEN DenseRankAt(seq, i - 1) + 1
    ELSE DenseRankAt(seq, i - 1)

RECURSIVE RankAt(_, _)
\* the rank of the row at position i of the sorted partition
RankAt(seq, i) ==
    IF i = 1 THEN 1
    ELSE IF KeyPrecedes(seq[i - 1], seq[i]) THEN i
    ELSE RankAt(seq, i - 1)

\* the rank of a row with key k in the partition with keys K
WindowRank(k, K) ==
    LET seq == OrderDesc(K)
    IN  RankAt(seq, CHOOSE i \in 1..Len(seq) : seq[i] = k)

ScoreKey(s) == <<s.TotalPoints, s.CorrectPicks>>

\* as RankScores, with the ranking not restricted to the competition
RankScoresEverywhere(S, c) ==
    LET K == MapRows(S, ScoreKey)
    IN  MapRows(S, LAMBDA s : [s EXCEPT !.Rank = WindowRank(ScoreKey(s), K)])

\* WITH RankedScores AS (... WHERE CompetitionId = @competitionId)
\* UPDATE s SET Rank = r.NewRank FROM Scores s INNER JOIN RankedScores r ON s.Id = r.Id
RankScores(S, c) ==
    LET partition == [s \in Where(S, LAMBDA x : x.CompetitionId = c) |-> CopiesIn(s, S)]
        K == MapRows(partition, ScoreKey)
    IN  UpdateWhere(S,
            LAMBDA s : s.CompetitionId = c,
            LAMBDA s : [s EXCEPT !.Rank = WindowRank(ScoreKey(s), K)])

\* the Picks table after the batch
CalcPicks(P, G, c) == GradePicks(P, G, c)

\* the Scores table after the batch
CalcScores(S, P, G, c) == RankScores(MergeScores(S, ScoreSource(CalcPicks(P, G, c), c)), c)

(***************************************************************************)
(* Handlers.  lastCall is the handler that returned last, the competition  *)
(* in its route, its HTTP status, the games whose final score it corrected *)
(* (carried over by a calculation that follows the correction), and        *)
(* whether the call before it was the same handler on the same route.      *)
(***************************************************************************)
\* an absent string field of a request body
NoValue == ""

\* the answer of a handler, recorded with the count of requests served
Answer(op, arg, status, corrected) ==
    /\ nops < MaxOps
    /\ nops' = nops + 1
    /\ lastCall' = [op |-> op, arg |-> arg, status |-> status, corrected |-> corrected,
                    again |-> lastCall.op = op /\ lastCall.arg = arg]

Return(op, arg, status, corrected) ==
    /\ Answer(op, arg, status, corrected)
    /\ UNCHANGED <<runs, others>>

\* as IsLocked, without the comparison of the lock date with the current time
IsLockedByStatus(competition) ==
    \/ competition.Status = "Locked"
    \/ competition.Status = "Completed"

\* new Date() > new Date(competition.LockDate) || Status === 'Locked' || Status === 'Completed'
IsLocked(competition) ==
    \/ competition.LockPassed
    \/ competition.Status = "Locked"
    \/ competition.Status = "Completed"

\* the Picks rows a route /competitions/{competitionId}/picks/{id} names
PickAt(p, c, g, u) == p.GameId = g /\ p.UserId = u /\ p.CompetitionId = c

ConfidenceOk(n) == MinConfidence <= n /\ n <= MaxConfidence

\* as SamePickKey, with the table holding no unique constraint
NoPickKey(p, g, u) == FALSE

\* CONSTRAINT UQ_Picks_GameUser UNIQUE (GameId, UserId)
SamePickKey(p, g, u) == p.GameId = g /\ p.UserId = u

\* POST competitions/{competitionId}/picks
CreatePick(c, g, u, team, conf) ==
    LET row == [CompetitionId |-> c, GameId |-> g, UserId |-> u,
                PickedTeam |-> team,
                ConfidencePoints |-> IF conf = NULL \/ conf = 0 THEN 1 ELSE conf,
                IsCorrect |-> NULL, PointsEarned |-> NULL]
        duplicate == \E p \in BagToSet(picks) : SamePickKey(p, g, u)
    IN  /\ UNCHANGED <<games, scores, comps, standings>>
        /\ IF team = NoValue
           THEN UNCHANGED picks /\ Return("createPick", c, 400, {})
           ELSE IF c \notin DOMAIN comps
           THEN UNCHANGED picks /\ Return("createPick", c, 404, {})
           ELSE IF IsLocked(comps[c])
           THEN UNCHANGED picks /\ Return("createPick", c, 403, {})
           ELSE \/ /\ duplicate
                   /\ UNCHANGED picks /\ Return("createPick", c, 409, {})
                \/ /\ ~ConfidenceOk(row.ConfidencePoints)
                   /\ UNCHANGED picks /\ Return("createPick", c, 400, {})
                \/ /\ ~duplicate /\ ConfidenceOk(row.ConfidencePoints)
                   /\ picks' = picks (+) SetToBag({row})
                   /\ Return("createPick", c, 201, {})

\* PUT competitions/{competitionId}/picks/{id}
UpdatePick(c, g, u, team, conf) ==
    /\ UNCHANGED <<games, scores, comps, standings>>
    /\ IF c \notin DOMAIN comps
       THEN UNCHANGED picks /\ Return("updatePick", c, 404, {})
       ELSE IF IsLocked(comps[c])
       THEN UNCHANGED picks /\ Return("updatePick", c, 403, {})
       ELSE IF Where(picks, LAMBDA p : PickAt(p, c, g, u)) = {}
       THEN UNCHANGED picks /\ Return("updatePick", c, 404, {})
       ELSE IF conf # NULL /\ ~ConfidenceOk(conf)
       THEN UNCHANGED picks /\ Return("updatePick", c, 500, {})
       ELSE /\ picks' = UpdateWhere(picks, LAMBDA p : PickAt(p, c, g, u),
                            LAMBDA p : [p EXCEPT
                                !.PickedTeam = IF team # NoValue THEN team ELSE @,
                                !.ConfidencePoints = Coalesce(conf, @)])
            /\ Return("updatePick", c, 200, {})

\* DELETE competitions/{competitionId}/picks/{id}
DeletePick(c, g, u) ==
    /\ UNCHANGED <<games, scores, comps, standings>>
    /\ IF c \notin DOMAIN comps
       THEN UNCHANGED picks /\ Return("deletePick", c, 404, {})
       ELSE IF IsLocked(comps[c])
       THEN UNCHANGED picks /\ Return("deletePick", c, 403, {})
       ELSE IF Where(picks, LAMBDA p : PickAt(p, c, g, u)) = {}
       THEN UNCHANGED picks /\ Return("deletePick", c, 404, {})
       ELSE /\ picks' = DeleteWhere(picks, LAMBDA p : PickAt(p, c, g, u))
            /\ Return("deletePick", c, 204, {})

\* PUT competitions/{competitionId}/games/{id}
UpdateGame(c, g, homeTeamScore, awayTeamScore, status) ==
    /\ UNCHANGED <<picks, scores, comps, standings>>
    /\ IF g \notin DOMAIN games \/ games[g].CompetitionId # c
       THEN UNCHANGED games /\ Return("updateGame", c, 404, {})
       ELSE LET old == games[g]
                new == [old EXCEPT
                           !.HomeTeamScore = Coalesce(homeTeamScore, @),
                           !.AwayTeamScore = Coalesce(awayTeamScore, @),
                           !.Status = IF status # NoValue THEN status ELSE @]
                graded == \E p \in BagToSet(picks) : p.GameId = g /\ p.IsCorrect # NULL
                corrected ==
                    /\ old.Status = "Final" /\ new.Status = "Final" /\ graded
                    /\ <<old.HomeTeamScore, old.AwayTeamScore>>
                         # <<new.HomeTeamScore, new.AwayTeamScore>>
            IN  /\ games' = [games EXCEPT ![g] = new]
                /\ Return("updateGame", c, 200, IF corrected THEN {g} ELSE {})

\* DELETE competitions/{competitionId}/games/{id}
DeleteGame(c, g) ==
    /\ UNCHANGED <<picks, scores, comps, standings>>
    /\ IF g \notin DOMAIN games \/ games[g].CompetitionId # c
       THEN UNCHANGED games /\ Return("deleteGame", c, 404, {})
       ELSE /\ games' = [games EXCEPT ![g].Status = "Cancelled"]
            /\ Return("deleteGame", c, 204, {})

\* POST competitions/{competitionId}/scores/calculate
CalculateCompetitionScores(c) ==
    /\ picks' = CalcPicks(picks, games, c)
    /\ scores' = CalcScores(scores, picks, games, c)
    /\ comps' = [x \in DOMAIN comps |->
                    IF x = c THEN [comps[x] EXCEPT !.ScoringCalculated = 1] ELSE comps[x]]
    /\ UNCHANGED <<games, standings>>
    /\ Return("calculateCompetitionScores", c, 200,
              IF lastCall.op = "updateGame" THEN lastCall.corrected ELSE {})

\* POST competitions/{competitionId}/scores
UpsertScore(c, u, totalPoints, correctPicks, totalPicks, rank) ==
    LET zero(x) == IF x = NULL THEN 0 ELSE x
        row == [CompetitionId |-> c, UserId |-> u,
                TotalPoints |-> zero(totalPoints),
                CorrectPicks |-> zero(correctPicks),
                TotalPicks |-> zero(totalPicks),
                Rank |-> IF rank = 0 THEN NULL ELSE rank]
    IN  /\ UNCHANGED <<games, picks, comps, standings>>
        /\ IF u = NoValue
           THEN UNCHANGED scores /\ Return("upsertScore", c, 400, {})
           ELSE IF c \notin DOMAIN comps
           THEN UNCHANGED scores /\ Return("upsertScore", c, 500, {})
           ELSE /\ scores' = IF Where(scores, LAMBDA t : ScoreMatch(t, row)) # {}
                             THEN UpdateWhere(scores, LAMBDA t : ScoreMatch(t, row), LAMBDA t : row)
                             ELSE scores (+) SetToBag({row})
                /\ Return("upsertScore", c, 200, {})

(***************************************************************************)
(* calculateCompetitionScores statement by statement.  The handler sends   *)
(* its four statements as one batch on a pooled connection, outside any    *)
(* transaction: each statement commits on its own, requests being served   *)
(* concurrently interleave between statements, and a statement that raises *)
(* an error (a timeout, a deadlock, a lost connection) ends the batch with *)
(* the earlier statements committed.  runs[r].pc is the statement request  *)
(* r executes next, runs[r].before the Picks and Scores tables as they     *)
(* were when r started.                                                    *)
(***************************************************************************)
Runs == {"r1", "r2"}

BatchStatements == {"grade", "merge", "rank", "mark"}

IdleRun == [pc |-> "idle", c |-> NoValue, at |-> NoValue, before |-> <<EmptyBag, EmptyBag>>]

NoRuns == [r \in Runs |-> IdleRun]

\* the handler starts: const competitionId = request.params.competitionId
StartCalculation(r, c) ==
    /\ runs[r].pc = "idle"
    /\ runs' = [runs EXCEPT ![r] = [pc |-> "grade", c |-> c, at |-> NoValue,
                                    before |-> <<picks, scores>>]]
    /\ UNCHANGED <<games, picks, scores, comps, standings, lastCall, nops, others>>

\* UPDATE p SET IsCorrect = ..., PointsEarned = ...
GradeStatement(r) ==
    /\ runs[r].pc = "grade"
    /\ picks' = GradePicks(picks, games, runs[r].c)
    /\ runs' = [runs EXCEPT ![r].pc = "merge"]
    /\ UNCHANGED <<games, scores, comps, standings, lastCall, nops, others>>

\* MERGE Scores AS target USING (...) AS source
MergeStatement(r) ==
    /\ runs[r].pc = "merge"
    /\ scores' = MergeScores(scores, ScoreSource(picks, runs[r].c))
    /\ runs' = [runs EXCEPT ![r].pc = "rank"]
    /\ UNCHANGED <<games, picks, comps, standings, lastCall, nops, others>>

\* WITH RankedScores AS (...) UPDATE s SET Rank = r.NewRank
RankStatement(r) ==
    /\ runs[r].pc = "rank"
    /\ scores' = RankScores(scores, runs[r].c)
    /\ runs' = [runs EXCEPT ![r].pc = "mark"]
    /\ UNCHANGED <<games, picks, comps, standings, lastCall, nops, others>>

\* UPDATE Competitions SET ScoringCalculated = 1 WHERE Id = @competitionId
MarkStatement(r) ==
    /\ runs[r].pc = "mark"
    /\ comps' = [x \in DOMAIN comps |->
                    IF x = runs[r].c THEN [comps[x] EXCEPT !.ScoringCalculated = 1]
                    ELSE comps[x]]
    /\ runs' = [runs EXCEPT ![r].pc = "select"]
    /\ UNCHANGED <<games, picks, scores, standings, lastCall, nops, others>>

\* the statement the request is about to execute raises an error: the batch
\* stops there and the catch block answers 500
StatementFails(r) ==
    /\ runs[r].pc \in BatchStatements
    /\ runs' = [runs EXCEPT ![r].pc = "failed", ![r].at = runs[r].pc]
    /\ lastCall' = [op |-> "calculateCompetitionScores", arg |-> runs[r].c, status |-> 500,
                    corrected |-> {}, again |-> FALSE]
    /\ UNCHANGED <<games, picks, scores, comps, standings, nops, others>>

\* the leaderboard SELECT and the 200 answer
LeaderboardQuery(r) ==
    /\ runs[r].pc = "select"
    /\ runs' = [runs EXCEPT ![r].pc = "done"]
    /\ lastCall' = [op |-> "calculateCompetitionScores", arg |-> runs[r].c, status |-> 200,
                    corrected |-> {}, again |-> FALSE]
    /\ UNCHANGED <<games, picks, scores, comps, standings, nops, others>>

(***************************************************************************)
(* Competitions and season standings.  TotalPoints is in points;           *)
(* AveragePointsPerWeek, a DECIMAL(10,2), is in hundredths of a point.     *)
(***************************************************************************)
\* PUT leagues/{leagueId}/competitions/{id}; lockDate is "past", "future" or absent
UpdateCompetition(l, c, status, lockDate, scoringCalculated) ==
    /\ UNCHANGED <<games, picks, scores, standings>>
    /\ IF c \notin DOMAIN comps \/ comps[c].LeagueId # l
       THEN UNCHANGED comps /\ Return("updateCompetition", c, 404, {})
       ELSE IF status # NoValue /\ status \notin CompetitionStatuses
       THEN UNCHANGED comps /\ Return("updateCompetition", c, 500, {})
       ELSE /\ comps' = [comps EXCEPT
                   ![c].Status = IF status # NoValue THEN status ELSE @,
                   ![c].LockPassed = IF lockDate # NoValue THEN lockDate = "past" ELSE @,
                   ![c].ScoringCalculated = Coalesce(scoringCalculated, @)]
            /\ Return("updateCompetition", c, 200, {})

\* DELETE leagues/{leagueId}/competitions/{id}
DeleteCompetition(l, c) ==
    /\ UNCHANGED <<games, picks, scores, standings>>
    /\ IF c \notin DOMAIN comps \/ comps[c].LeagueId # l
       THEN UNCHANGED comps /\ Return("deleteCompetition", c, 404, {})
       ELSE /\ comps' = [comps EXCEPT ![c].Status = "Cancelled"]
            /\ Return("deleteCompetition", c, 204, {})

\* as AvgHundredths, with the value cut, not rounded, to two places
AvgCutToHundredths(sum, n) == (sum * 100) \div n

\* AVG over a DECIMAL(10,2) column is a DECIMAL(38,6), cut after six places;
\* storing it in a DECIMAL(10,2) column rounds it to two
AvgHundredths(sum, n) == (((sum * 1000000) \div n) + 5000) \div 10000

\* SELECT ... FROM Scores s INNER JOIN Competitions c ON s.CompetitionId = c.Id
\* WHERE c.LeagueId = @leagueId AND c.Status = 'Completed' GROUP BY s.UserId
StandingSource(S, C, l) ==
    LET rows == Where(S, LAMBDA s : /\ s.CompetitionId \in DOMAIN C
                                    /\ C[s.CompetitionId].LeagueId = l
                                    /\ C[s.CompetitionId].Status = "Completed")
        of(u) == {s \in rows : s.UserId = u}
    IN  {[LeagueId |-> l,
          UserId |-> u,
          TotalPoints |-> SumRows(of(u), S, LAMBDA s : s.TotalPoints),
          WeeksParticipated |-> Cardinality({s.CompetitionId : s \in of(u)}),
          TotalCorrectPicks |-> SumRows(of(u), S, LAMBDA s : s.CorrectPicks),
          TotalPicks |-> SumRows(of(u), S, LAMBDA s : s.TotalPicks),
          AveragePointsPerWeek |->
              AvgHundredths(SumRows(of(u), S, LAMBDA s : s.TotalPoints),
                            SumRows(of(u), S, LAMBDA s : 1))] :
         u \in {s.UserId : s \in rows}}

\* ON target.LeagueId = source.LeagueId AND target.UserId = source.UserId
StandingMatch(t, s) == t.LeagueId = s.LeagueId /\ t.UserId = s.UserId

\* MERGE SeasonStandings AS target USING source: WHEN MATCHED THEN UPDATE the
\* aggregates, WHEN NOT MATCHED THEN INSERT (Rank takes the column default, NULL)
MergeStandings(T, source) ==
    LET matched(t) == {s \in source : StandingMatch(t, s)}
        updated == UpdateWhere(T,
            LAMBDA t : matched(t) # {},
            LAMBDA t : LET s == CHOOSE x \in matched(t) : TRUE
                       IN  [t EXCEPT !.TotalPoints = s.TotalPoints,
                                     !.WeeksParticipated = s.WeeksParticipated,
                                     !.TotalCorrectPicks = s.TotalCorrectPicks,
                                     !.TotalPicks = s.TotalPicks,
                                     !.AveragePointsPerWeek = s.AveragePointsPerWeek])
        inserted == {[LeagueId |-> s.LeagueId,
                      UserId |-> s.UserId,
                      TotalPoints |-> s.TotalPoints,
                      WeeksParticipated |-> s.WeeksParticipated,
                      TotalCorrectPicks |-> s.TotalCorrectPicks,
                      TotalPicks |-> s.TotalPicks,
                      AveragePointsPerWeek |-> s.AveragePointsPerWeek,
                      Rank |-> NULL] :
                     s \in {x \in source : \A t \in BagToSet(T) : ~StandingMatch(t, x)}}
    IN  updated (+) SetToBag(inserted)

StandingKey(t) == <<t.TotalPoints, t.TotalCorrectPicks>>

\* WITH RankedStandings AS (... WHERE LeagueId = @leagueId)
\* UPDATE ss SET Rank = r.NewRank FROM SeasonStandings ss INNER JOIN RankedStandings r
RankStandings(T, l) ==
    LET partition == [t \in Where(T, LAMBDA x : x.LeagueId = l) |-> CopiesIn(t, T)]
        K == MapRows(partition, StandingKey)
    IN  UpdateWhere(T,
            LAMBDA t : t.LeagueId = l,
            LAMBDA t : [t EXCEPT !.Rank = WindowRank(StandingKey(t), K)])

\* POST leagues/{leagueId}/standings/calculate
CalculateSeasonStandings(l) ==
    /\ standings' = RankStandings(MergeStandings(standings, StandingSource(scores, comps, l)), l)
    /\ UNCHANGED <<games, picks, scores, comps>>
    /\ Return("calculateSeasonStandings", l, 200, {})

(***************************************************************************)
(* createPick, updatePick and deletePick statement by statement: the       *)
(* handler awaits the lock check SELECT, then awaits the write; another    *)
(* request's statement can execute between the two.                        *)
(***************************************************************************)
PickCallers == {"h1", "h2"}

IdleCall == [pc |-> "idle", op |-> NoValue, c |-> NoValue, g |-> NoValue, u |-> NoValue,
             team |-> NoValue, conf |-> NULL]

NoPickCalls == [h \in PickCallers |-> IdleCall]

\* the validation of the body, SELECT LockDate, Status FROM Competitions
\* WHERE Id = @competitionId, and the two early returns after it
LockCheck(h, op, c, g, u, team, conf) ==
    /\ pickCalls[h].pc = "idle"
    /\ UNCHANGED <<games, picks, scores, comps, standings, runs,
                   memberVars, notifications, connVars>>
    /\ IF op = "createPick" /\ team = NoValue
       THEN UNCHANGED pickCalls /\ Answer(op, c, 400, {})
       ELSE IF c \notin DOMAIN comps
       THEN UNCHANGED pickCalls /\ Answer(op, c, 404, {})
       ELSE IF IsLocked(comps[c])
       THEN UNCHANGED pickCalls /\ Answer(op, c, 403, {})
       ELSE /\ pickCalls' = [pickCalls EXCEPT ![h] =
                                [pc |-> "write", op |-> op, c |-> c, g |-> g, u |-> u,
                                 team |-> team, conf |-> conf]]
            /\ UNCHANGED <<lastCall, nops>>

\* the INSERT, UPDATE or DELETE of a request whose lock check has passed,
\* and the answer
PickWrite(h) ==
    LET call == pickCalls[h]
        row == [CompetitionId |-> call.c, GameId |-> call.g, UserId |-> call.u,
                PickedTeam |-> call.team,
                ConfidencePoints |-> IF call.conf = NULL \/ call.conf = 0 THEN 1 ELSE call.conf,
                IsCorrect |-> NULL, PointsEarned |-> NULL]
        duplicate == \E p \in BagToSet(picks) : SamePickKey(p, call.g, call.u)
        found == Where(picks, LAMBDA p : PickAt(p, call.c, call.g, call.u)) # {}
    IN  /\ call.pc = "write"
        /\ pickCalls' = [pickCalls EXCEPT ![h] = IdleCall]
        /\ UNCHANGED <<games, scores, comps, standings, runs,
                       memberVars, notifications, connVars>>
        /\ CASE call.op = "createPick" ->
                  IF duplicate
                  THEN UNCHANGED picks /\ Answer("createPick", call.c, 409, {})
                  ELSE IF ~ConfidenceOk(row.ConfidencePoints)
                  THEN UNCHANGED picks /\ Answer("createPick", call.c, 400, {})
                  ELSE /\ picks' = picks (+) SetToBag({row})
                       /\ Answer("createPick", call.c, 201, {})
             [] call.op = "updatePick" ->
                  IF ~found
                  THEN UNCHANGED picks /\ Answer("updatePick", call.c, 404, {})
                  ELSE IF call.conf # NULL /\ ~ConfidenceOk(call.conf)
                  THEN UNCHANGED picks /\ Answer("updatePick", call.c, 500, {})
                  ELSE /\ picks' = UpdateWhere(picks,
                                      LAMBDA p : PickAt(p, call.c, call.g, call.u),
                                      LAMBDA p : [p EXCEPT
                                          !.PickedTeam = IF call.team # NoValue THEN call.team ELSE @,
                                          !.ConfidencePoints = Coalesce(call.conf, @)])
                       /\ Answer("updatePick", call.c, 200, {})
             [] call.op = "deletePick" ->
                  IF ~found
                  THEN UNCHANGED picks /\ Answer("deletePick", call.c, 404, {})
                  ELSE /\ picks' = DeleteWhere(picks,
                                      LAMBDA p : PickAt(p, call.c, call.g, call.u))
                       /\ Answer("deletePick", call.c, 204, {})

(***************************************************************************)
(* Leagues and LeagueMembers.  createLeagueMember awaits its capacity      *)
(* SELECT, then awaits its INSERT.  A member row is named by its league    *)
(* and user, the key of UQ_LeagueMembers_LeagueUser.                       *)
(***************************************************************************)
MemberCallers == {"m1", "m2"}

IdleMemberCall == [pc |-> "idle", l |-> NoValue, u |-> NoValue]

NoMemberCalls == [h \in MemberCallers |-> IdleMemberCall]

\* MaxMembers INT NOT NULL DEFAULT 20
DefaultMaxMembers == 20

\* (SELECT COUNT(*) FROM LeagueMembers WHERE LeagueId = l.Id AND IsActive = 1)
CurrentMembers(M, l) == Cardinality({m \in M : m.LeagueId = l /\ m.IsActive = 1})

\* the validation of the body, the capacity SELECT and the early returns
CapacityCheck(h, l, u) ==
    /\ memberCalls[h].pc = "idle"
    /\ UNCHANGED <<games, picks, scores, comps, standings, runs,
                   pickCalls, leagues, members, notifications, connVars>>
    /\ IF u = NoValue
       THEN UNCHANGED memberCalls /\ Answer("createLeagueMember", l, 400, {})
       ELSE IF l \notin DOMAIN leagues \/ leagues[l].IsActive # 1
       THEN UNCHANGED memberCalls /\ Answer("createLeagueMember", l, 404, {})
       ELSE IF CurrentMembers(members, l) >= leagues[l].MaxMembers
       THEN UNCHANGED memberCalls /\ Answer("createLeagueMember", l, 409, {})
       ELSE /\ memberCalls' = [memberCalls EXCEPT ![h] = [pc |-> "insert", l |-> l, u |-> u]]
            /\ UNCHANGED <<lastCall, nops>>

\* INSERT INTO LeagueMembers (LeagueId, UserId, DisplayName); IsActive
\* defaults to 1; a UNIQUE violation is answered 409
InsertMember(h) ==
    LET call == memberCalls[h]
    IN  /\ call.pc = "insert"
        /\ memberCalls' = [memberCalls EXCEPT ![h] = IdleMemberCall]
        /\ UNCHANGED <<games, picks, scores, comps, standings, runs,
                       pickCalls, leagues, notifications, connVars>>
        /\ IF \E m \in members : m.LeagueId = call.l /\ m.UserId = call.u
           THEN UNCHANGED members /\ Answer("createLeagueMember", call.l, 409, {})
           ELSE /\ members' = members \cup
                       {[LeagueId |-> call.l, UserId |-> call.u, IsActive |-> 1]}
                /\ Answer("createLeagueMember", call.l, 201, {})

\* PUT leagues/{leagueId}/members/{id}: IsActive = COALESCE(@isActive, IsActive)
UpdateLeagueMember(l, u, isActive) ==
    /\ UNCHANGED <<games, picks, scores, comps, standings, runs,
                   pickCalls, leagues, memberCalls, notifications, connVars>>
    /\ IF ~\E m \in members : m.LeagueId = l /\ m.UserId = u
       THEN UNCHANGED members /\ Answer("updateLeagueMember", l, 404, {})
       ELSE /\ members' = {IF m.LeagueId = l /\ m.UserId = u
                           THEN [m EXCEPT !.IsActive = Coalesce(isActive, @)]
                           ELSE m : m \in members}
            /\ Answer("updateLeagueMember", l, 200, {})

\* PUT leagues/{id}: MaxMembers = COALESCE(@maxMembers, MaxMembers),
\* IsActive = COALESCE(@isActive, IsActive)
UpdateLeague(l, maxMembers, isActive) ==
    /\ UNCHANGED <<games, picks, scores, comps, standings, runs,
                   pickCalls, members, memberCalls, notifications, connVars>>
    /\ IF l \notin DOMAIN leagues
       THEN UNCHANGED leagues /\ Answer("updateLeague", l, 404, {})
       ELSE /\ leagues' = [leagues EXCEPT
                   ![l].MaxMembers = Coalesce(maxMembers, @),
                   ![l].IsActive = Coalesce(isActive, @)]
            /\ Answer("updateLeague", l, 200, {})

(***************************************************************************)
(* Notifications.  The rows are kept in the order of their creation; the   *)
(* position of a row stands for its Id.                                    *)
(***************************************************************************)
\* IsRead BIT NOT NULL DEFAULT 0, ReadAt DATETIME2 (nullable)
NewNotification(u) == [UserId |-> u, IsRead |-> 0, ReadAt |-> NULL]

RECURSIVE NewNotifications(_)
NewNotifications(U) ==
    IF U = {} THEN <<>>
    ELSE LET u == CHOOSE x \in U : TRUE
         IN  <<NewNotification(u)>> \o NewNotifications(U \ {u})

\* GETUTCDATE() of the request being served
UtcDate == nops + 1

\* POST users/{userId}/notifications; complete: type, title and message are given
CreateNotification(u, complete) ==
    /\ UNCHANGED <<games, picks, scores, comps, standings, runs,
                   pickCalls, memberVars, connVars>>
    /\ IF ~complete
       THEN UNCHANGED notifications /\ Answer("createNotification", u, 400, {})
       ELSE /\ notifications' = Append(notifications, NewNotification(u))
            /\ Answer("createNotification", u, 201, {})

\* POST leagues/{leagueId}/notifications: INSERT ... SELECT lm.UserId, ...
\* FROM LeagueMembers lm WHERE lm.LeagueId = @leagueId AND lm.IsActive = 1
CreateBulkNotifications(l, complete) ==
    /\ UNCHANGED <<games, picks, scores, comps, standings, runs,
                   pickCalls, memberVars, connVars>>
    /\ IF ~complete
       THEN UNCHANGED notifications /\ Answer("createBulkNotifications", l, 400, {})
       ELSE /\ notifications' = notifications \o NewNotifications(
                   {m.UserId : m \in {x \in members : x.LeagueId = l /\ x.IsActive = 1}})
            /\ Answer("createBulkNotifications", l, 201, {})

\* PUT users/{userId}/notifications/{id}
UpdateNotification(u, id, isRead) ==
    /\ UNCHANGED <<games, picks, scores, comps, standings, runs,
                   pickCalls, memberVars, connVars>>
    /\ IF id \notin DOMAIN notifications \/ notifications[id].UserId # u
       THEN UNCHANGED notifications /\ Answer("updateNotification", u, 404, {})
       ELSE /\ notifications' = [notifications EXCEPT
                   ![id].IsRead = Coalesce(isRead, @),
                   ![id].ReadAt = IF isRead = 1 THEN UtcDate ELSE @]
            /\ Answer("updateNotification", u, 200, {})

\* POST users/{userId}/notifications/mark-all-read
MarkAllNotificationsRead(u) ==
    /\ UNCHANGED <<games, picks, scores, comps, standings, runs,
                   pickCalls, memberVars, connVars>>
    /\ notifications' = [i \in DOMAIN notifications |->
            IF notifications[i].UserId = u /\ notifications[i].IsRead = 0
            THEN [notifications[i] EXCEPT !.IsRead = 1, !.ReadAt = UtcDate]
            ELSE notifications[i]]
    /\ Answer("markAllNotificationsRead", u, 200, {})

(***************************************************************************)
(* getConnection and closeConnection.  pool and tokenExpiry are the module *)
(* variables; pools is the state of every pool object; a handler is at one *)
(* of the awaits of getConnection or is issuing queries on the pool it was *)
(* given.  tokenExpiry is "null", "valid", or "due" once Date.now() is     *)
(* within 60 seconds of it.                                                *)
(***************************************************************************)
\* number of pool objects sql.connect creates in one exploration
MaxPools == 3

PoolIds == 1..MaxPools

\* let pool = null
NoPool == 0

Handlers == {"a", "b"}

IdleHandler == [pc |-> "idle", held |-> NoPool]

NoHandlers == [h \in Handlers |-> IdleHandler]

NoPools == [id \in PoolIds |-> "none"]

\* !pool || (tokenExpiry && now >= tokenExpiry - 60000)
NeedsConnection == pool = NoPool \/ tokenExpiry = "due"

\* getConnection up to its first await: the test, then return pool, or
\* pool.close(), or the request of a token when there is no pool to close
GetConnection(h) ==
    /\ handlers[h].pc = "idle"
    /\ UNCHANGED <<pool, tokenExpiry>>
    /\ IF ~NeedsConnection
       THEN /\ handlers' = [handlers EXCEPT ![h] = [pc |-> "query", held |-> pool]]
            /\ UNCHANGED pools
       ELSE IF pool # NoPool
       THEN /\ pools' = [pools EXCEPT ![pool] = "closed"]
            /\ handlers' = [handlers EXCEPT ![h].pc = "closing"]
       ELSE /\ handlers' = [handlers EXCEPT ![h].pc = "token"]
            /\ UNCHANGED pools

\* await pool.close() resumes: cred.getToken is requested
PoolClosed(h) ==
    /\ handlers[h].pc = "closing"
    /\ handlers' = [handlers EXCEPT ![h].pc = "token"]
    /\ UNCHANGED <<pool, tokenExpiry, pools>>

\* await cred.getToken resumes: tokenExpiry = now + (60 * 60 * 1000), then
\* sql.connect(config).  The source does not say whether the driver starts
\* a pool for every call or hands out one it has already opened for the
\* process: both outcomes are taken.
TokenReceived(h) ==
    /\ handlers[h].pc = "token"
    /\ \/ \E id \in PoolIds :
            /\ pools[id] = "none"
            /\ \A k \in PoolIds : k < id => pools[k] # "none"
            /\ pools' = [pools EXCEPT ![id] = "open"]
            /\ handlers' = [handlers EXCEPT ![h] = [pc |-> "connect", held |-> id]]
       \/ \E id \in PoolIds :
            /\ pools[id] = "open"
            /\ UNCHANGED pools
            /\ handlers' = [handlers EXCEPT ![h] = [pc |-> "connect", held |-> id]]
    /\ tokenExpiry' = "valid"
    /\ UNCHANGED pool

\* pool = await sql.connect(config); return pool
Connected(h) ==
    /\ handlers[h].pc = "connect"
    /\ pool' = handlers[h].held
    /\ handlers' = [handlers EXCEPT ![h].pc = "query"]
    /\ UNCHANGED <<tokenExpiry, pools>>

\* the handler has issued its last query on the pool it was given
HandlerReturns(h) ==
    /\ handlers[h].pc = "query"
    /\ handlers' = [handlers EXCEPT ![h] = IdleHandler]
    /\ UNCHANGED <<pool, tokenExpiry, pools>>

\* the clock reaches tokenExpiry - 60000
TokenAges ==
    /\ tokenExpiry = "valid"
    /\ tokenExpiry' = "due"
    /\ UNCHANGED <<pool, pools, handlers>>

\* closeConnection up to its await: if (pool) { await pool.close(); ...
CloseConnection(h) ==
    /\ handlers[h].pc = "idle"
    /\ pool # NoPool
    /\ pools' = [pools EXCEPT ![pool] = "closed"]
    /\ handlers' = [handlers EXCEPT ![h].pc = "reset"]
    /\ UNCHANGED <<pool, tokenExpiry>>

\* ... pool = null; tokenExpiry = null; }
ConnectionReset(h) ==
    /\ handlers[h].pc = "reset"
    /\ pool' = NoPool
    /\ tokenExpiry' = "null"
    /\ handlers' = [handlers EXCEPT ![h] = IdleHandler]
    /\ UNCHANGED pools

(***************************************************************************)
(* The state outside the tables of picks and scores, as deployed: league   *)
(* l1 of two places with one member, no notification, no connection.       *)
(***************************************************************************)
InitLeagues ==
    [l \in Leagues |-> [MaxMembers |-> IF l = "l1" THEN 2 ELSE DefaultMaxMembers,
                        IsActive |-> 1]]

InitMembers == {[LeagueId |-> "l1", UserId |-> "u1", IsActive |-> 1]}

InitConnection ==
    /\ pool = NoPool
    /\ tokenExpiry = "null"
    /\ pools = NoPools
    /\ handlers = NoHandlers

InitOthers ==
    /\ pickCalls = NoPickCalls
    /\ leagues = InitLeagues
    /\ members = InitMembers
    /\ memberCalls = NoMemberCalls
    /\ notifications = <<>>
    /\ InitConnection

(***************************************************************************)
(* The database the handlers start from.                                   *)
(***************************************************************************)
NoCall == [op |-> "none", arg |-> NoValue, status |-> 0, corrected |-> {}, again |-> FALSE]

\* g1 and g2 are the games of competition c1, g3 is the game of competition c2;
\* all three were played and the home team won
InitGames ==
    [g \in Games |->
        [CompetitionId |-> IF g = "g3" THEN "c2" ELSE "c1",
         HomeTeam |-> IF g = "g2" THEN "B" ELSE "A",
         AwayTeam |-> IF g = "g2" THEN "A" ELSE "B",
         HomeTeamScore |-> MaxScore,
         AwayTeamScore |-> 0,
         Status |-> "Final"]]

\* c1 and c2 are weeks of league l1, c3 is a week of league l2; c1 is open for
\* picks, c2 was scored and locked, c3 was scored and completed
InitCompetitions ==
    [c \in Competitions |->
        [LeagueId |-> IF c = "c3" THEN "l2" ELSE "l1",
         Status |-> IF c = "c1" THEN "Active" ELSE IF c = "c2" THEN "Locked" ELSE "Completed",
         LockPassed |-> c # "c1",
         ScoringCalculated |-> IF c = "c1" THEN 0 ELSE 1]]

\* the one pick of c2, as its calculation graded it
InitPicks ==
    SetToBag({[CompetitionId |-> "c2", GameId |-> "g3", UserId |-> "u1",
               PickedTeam |-> "A", ConfidencePoints |-> 2,
               IsCorrect |-> 1, PointsEarned |-> 2]})

\* the Score row of c2, as its calculation left it
InitScores ==
    SetToBag({[CompetitionId |-> "c2", UserId |-> "u1", TotalPoints |-> 2,
               CorrectPicks |-> 1, TotalPicks |-> 1, Rank |-> 1]})

Init ==
    /\ games = InitGames
    /\ picks = InitPicks
    /\ scores = InitScores
    /\ standings = EmptyBag
    /\ comps = InitCompetitions
    /\ lastCall = NoCall
    /\ nops = 0
    /\ runs = NoRuns
    /\ InitOthers

\* request bodies an administrator sends to updateGame
GameUpdates ==
    {[status |-> "Final", home |-> NULL, away |-> NULL],
     [status |-> "InProgress", home |-> NULL, away |-> NULL],
     [status |-> NoValue, home |-> 0, away |-> MaxScore],
     [status |-> NoValue, home |-> NULL, away |-> MaxScore]}

Next ==
    \/ \E g \in {"g1", "g2"}, u \in Players, team \in Teams, conf \in {NULL, 2} :
         /\ \A p \in BagToSet(picks) : ~(p.GameId = g /\ p.UserId = u)
         /\ CreatePick("c1", g, u, team, conf)
    \/ \E p \in BagToSet(picks), b \in {<<"B", NULL>>, <<NoValue, 2>>} :
         /\ p.CompetitionId = "c1"
         /\ UpdatePick(p.CompetitionId, p.GameId, p.UserId, b[1], b[2])
    \/ \E p \in BagToSet(picks) :
         /\ p.CompetitionId = "c1"
         /\ DeletePick(p.CompetitionId, p.GameId, p.UserId)
    \/ \E g \in {"g1", "g2"}, b \in GameUpdates :
         UpdateGame(games[g].CompetitionId, g, b.home, b.away, b.status)
    \/ CalculateCompetitionScores("c1")

Spec == Init /\ [][Next]_vars

(***************************************************************************)
(* Scores written by upsertScore and by the calculation: u1 has a winning   *)
(* pick in c1, and any user's row of c1 can be upserted.                    *)
(***************************************************************************)
RankingPicks ==
    InitPicks (+) SetToBag({[CompetitionId |-> "c1", GameId |-> "g1", UserId |-> "u1",
                             PickedTeam |-> "A", ConfidencePoints |-> 2,
                             IsCorrect |-> NULL, PointsEarned |-> NULL]})

InitRanking ==
    /\ games = InitGames
    /\ picks = RankingPicks
    /\ scores = InitScores
    /\ standings = EmptyBag
    /\ comps = InitCompetitions
    /\ lastCall = NoCall
    /\ nops = 0
    /\ runs = NoRuns
    /\ InitOthers

\* request bodies sent to upsertScore
ScoreBodies ==
    {[totalPoints |-> 2, correctPicks |-> 1, totalPicks |-> 1, rank |-> NULL],
     [totalPoints |-> 1, correctPicks |-> 2, totalPicks |-> 2, rank |-> 1],
     [totalPoints |-> 2, correctPicks |-> 2, totalPicks |-> 2, rank |-> 0],
     [totalPoints |-> NULL, correctPicks |-> NULL, totalPicks |-> NULL, rank |-> NULL]}

NextRanking ==
    \/ \E u \in Users, b \in ScoreBodies :
         UpsertScore("c1", u, b.totalPoints, b.correctPicks, b.totalPicks, b.rank)
    \/ \E c \in {"c1", "c2"} : CalculateCompetitionScores(c)

SpecRanking == InitRanking /\ [][NextRanking]_vars

(***************************************************************************)
(* A season: Score rows of three weeks in two leagues, the weeks changing  *)
(* status while the standings are calculated.                              *)
(***************************************************************************)
SeasonScores ==
    InitScores (+) SetToBag({
        [CompetitionId |-> "c1", UserId |-> "u1", TotalPoints |-> 1,
         CorrectPicks |-> 1, TotalPicks |-> 2, Rank |-> 2],
        [CompetitionId |-> "c1", UserId |-> "u2", TotalPoints |-> 3,
         CorrectPicks |-> 2, TotalPicks |-> 2, Rank |-> 1],
        [CompetitionId |-> "c3", UserId |-> "u2", TotalPoints |-> 2,
         CorrectPicks |-> 1, TotalPicks |-> 1, Rank |-> 1]})

InitSeason ==
    /\ games = InitGames
    /\ picks = InitPicks
    /\ scores = SeasonScores
    /\ standings = EmptyBag
    /\ \E st \in [{"c1", "c2"} -> {"Locked", "Completed"}] :
         comps = [c \in Competitions |->
                    IF c = "c3" THEN InitCompetitions[c]
                    ELSE [InitCompetitions[c] EXCEPT !.Status = st[c], !.LockPassed = TRUE]]
    /\ lastCall = NoCall
    /\ nops = 0
    /\ runs = NoRuns
    /\ InitOthers

NextSeason ==
    \/ \E c \in Competitions, st \in CompetitionStatuses :
         UpdateCompetition(comps[c].LeagueId, c, st, NoValue, NULL)
    \/ \E c \in Competitions : DeleteCompetition(comps[c].LeagueId, c)
    \/ \E l \in Leagues : CalculateSeasonStandings(l)

SpecSeason == InitSeason /\ [][NextSeason]_vars

(***************************************************************************)
(* A league of three weeks: u1 has a Score row in each week, u2 in the     *)
(* first; weeks become Completed or stop being so between calculations.    *)
(***************************************************************************)
\* the points of a Score row
PointMenu == {0, 1, 2}

InitAverage ==
    /\ games = InitGames
    /\ picks = InitPicks
    /\ \E tp \in [Competitions -> PointMenu] :
         scores = SetToBag({[CompetitionId |-> c, UserId |-> "u1", TotalPoints |-> tp[c],
                             CorrectPicks |-> tp[c], TotalPicks |-> 2, Rank |-> 1] :
                            c \in Competitions})
                  (+) SetToBag({[CompetitionId |-> "c1", UserId |-> "u2", TotalPoints |-> 1,
                                 CorrectPicks |-> 1, TotalPicks |-> 2, Rank |-> 1]})
    /\ standings = EmptyBag
    /\ comps = [c \in Competitions |->
                  [LeagueId |-> "l1", Status |-> "Completed",
                   LockPassed |-> TRUE, ScoringCalculated |-> 1]]
    /\ lastCall = NoCall
    /\ nops = 0
    /\ runs = NoRuns
    /\ InitOthers

NextAverage ==
    \/ \E c \in Competitions, st \in {"Locked", "Completed"} :
         UpdateCompetition("l1", c, st, NoValue, NULL)
    \/ CalculateSeasonStandings("l1")

SpecAverage == InitAverage /\ [][NextAverage]_vars

(***************************************************************************)
(* Two requests to calculateCompetitionScores served concurrently, over a  *)
(* competition c1 with ungraded picks and a stale rank.                    *)
(***************************************************************************)
InitRuns ==
    /\ games = InitGames
    /\ \E t1, t2 \in Teams :
         picks = InitPicks (+) SetToBag({
             [CompetitionId |-> "c1", GameId |-> "g1", UserId |-> "u1",
              PickedTeam |-> t1, ConfidencePoints |-> 2,
              IsCorrect |-> NULL, PointsEarned |-> NULL],
             [CompetitionId |-> "c1", GameId |-> "g2", UserId |-> "u2",
              PickedTeam |-> t2, ConfidencePoints |-> 3,
              IsCorrect |-> NULL, PointsEarned |-> NULL]})
    /\ scores = InitScores
    /\ standings = EmptyBag
    /\ comps = InitCompetitions
    /\ lastCall = NoCall
    /\ nops = 0
    /\ runs = NoRuns
    /\ InitOthers

NextRuns ==
    \/ \E r \in Runs, c \in {"c1", "c2"} : StartCalculation(r, c)
    \/ \E r \in Runs : GradeStatement(r)
    \/ \E r \in Runs : MergeStatement(r)
    \/ \E r \in Runs : RankStatement(r)
    \/ \E r \in Runs : MarkStatement(r)
    \/ \E r \in Runs : StatementFails(r)
    \/ \E r \in Runs : LeaderboardQuery(r)

SpecRuns == InitRuns /\ [][NextRuns]_vars

(***************************************************************************)
(* Requests of any shape: picks on open, locked and unknown competitions,  *)
(* on games of another competition, repeated, with any confidence weight.  *)
(***************************************************************************)
\* c1 open; c1 open by status with its lock date passed; c1 Locked; c1 Completed
LockStates ==
    {[Status |-> "Active", LockPassed |-> FALSE],
     [Status |-> "Active", LockPassed |-> TRUE],
     [Status |-> "Locked", LockPassed |-> FALSE],
     [Status |-> "Completed", LockPassed |-> FALSE]}

InitRequests ==
    /\ games = InitGames
    /\ picks = InitPicks
    /\ scores = InitScores
    /\ standings = EmptyBag
    /\ \E k \in LockStates :
         comps = [InitCompetitions EXCEPT !["c1"].Status = k.Status,
                                          !["c1"].LockPassed = k.LockPassed]
    /\ lastCall = NoCall
    /\ nops = 0
    /\ runs = NoRuns
    /\ InitOthers

\* competition identifiers in a route: c9 names no Competitions row
RouteCompetitions == {"c1", "c2", "c9"}
\* g1 is a game of c1, g3 a game of c2
RouteGames == {"g1", "g3"}
\* confidencePoints of a body: absent, 0, in range, above the range
BodyConfidences == {NULL, 0, 2, MaxConfidence + 1}
\* bodies sent to createPick: without pickedTeam, and with it and each weight
CreateBodies ==
    {[pickedTeam |-> NoValue, confidencePoints |-> NULL]}
    \cup {[pickedTeam |-> "A", confidencePoints |-> n] : n \in BodyConfidences}
\* bodies sent to updatePick: a new team, a new weight, a weight above the range
UpdateBodies ==
    {[pickedTeam |-> "B", confidencePoints |-> NULL],
     [pickedTeam |-> NoValue, confidencePoints |-> 3],
     [pickedTeam |-> NoValue, confidencePoints |-> MaxConfidence + 1]}

NextRequests ==
    \/ \E c \in RouteCompetitions, g \in RouteGames, u \in Players, b \in CreateBodies :
         CreatePick(c, g, u, b.pickedTeam, b.confidencePoints)
    \/ \E c \in RouteCompetitions, g \in RouteGames, u \in Players, b \in UpdateBodies :
         UpdatePick(c, g, u, b.pickedTeam, b.confidencePoints)
    \/ \E c \in RouteCompetitions, g \in RouteGames, u \in Players : DeletePick(c, g, u)
    \/ \E c \in {"c1", "c9"} : CalculateCompetitionScores(c)

SpecRequests == InitRequests /\ [][NextRequests]_vars

(***************************************************************************)
(* The games of c1 changing status, with a pick on each, between           *)
(* calculations.                                                           *)
(***************************************************************************)
InitGameStatus ==
    /\ games = InitGames
    /\ picks = InitPicks (+) SetToBag({
           [CompetitionId |-> "c1", GameId |-> "g1", UserId |-> "u1",
            PickedTeam |-> "A", ConfidencePoints |-> 2,
            IsCorrect |-> NULL, PointsEarned |-> NULL],
           [CompetitionId |-> "c1", GameId |-> "g2", UserId |-> "u1",
            PickedTeam |-> "A", ConfidencePoints |-> 3,
            IsCorrect |-> NULL, PointsEarned |-> NULL]})
    /\ scores = InitScores
    /\ standings = EmptyBag
    /\ comps = InitCompetitions
    /\ lastCall = NoCall
    /\ nops = 0
    /\ runs = NoRuns
    /\ InitOthers

NextGameStatus ==
    \/ \E g \in {"g1", "g2"}, st \in GameStatuses :
         UpdateGame(games[g].CompetitionId, g, NULL, NULL, st)
    \/ \E g \in {"g1", "g2"} : DeleteGame(games[g].CompetitionId, g)
    \/ CalculateCompetitionScores("c1")

SpecGameStatus == InitGameStatus /\ [][NextGameStatus]_vars

(***************************************************************************)
(* Two competitions with work to do: c1 holds a pick on its own game and a *)
(* pick on the game of c2, c2 holds a graded and an ungraded pick.         *)
(***************************************************************************)
InitTwoCompetitions ==
    /\ games = InitGames
    /\ picks = InitPicks (+) SetToBag({
           [CompetitionId |-> "c1", GameId |-> "g1", UserId |-> "u1",
            PickedTeam |-> "A", ConfidencePoints |-> 2,
            IsCorrect |-> NULL, PointsEarned |-> NULL],
           [CompetitionId |-> "c1", GameId |-> "g3", UserId |-> "u2",
            PickedTeam |-> "A", ConfidencePoints |-> 3,
            IsCorrect |-> NULL, PointsEarned |-> NULL],
           [CompetitionId |-> "c2", GameId |-> "g3", UserId |-> "u3",
            PickedTeam |-> "B", ConfidencePoints |-> 1,
            IsCorrect |-> NULL, PointsEarned |-> NULL]})
    /\ scores = InitScores
    /\ standings = EmptyBag
    /\ comps = InitCompetitions
    /\ lastCall = NoCall
    /\ nops = 0
    /\ runs = NoRuns
    /\ InitOthers

NextTwoCompetitions ==
    \/ \E g \in {"g1", "g3"}, b \in GameUpdates :
         UpdateGame(games[g].CompetitionId, g, b.home, b.away, b.status)
    \/ \E c \in {"c1", "c2"} : UpsertScore(c, "u3", 2, 1, 1, NULL)
    \/ \E c \in {"c1", "c2"} : CalculateCompetitionScores(c)

SpecTwoCompetitions == InitTwoCompetitions /\ [][NextTwoCompetitions]_vars

(***************************************************************************)
(* Pick requests of two clients served statement by statement while an     *)
(* administrator changes the status of competition c1.                     *)
(***************************************************************************)
InitLockRace ==
    /\ games = InitGames
    /\ picks = InitPicks (+) SetToBag({
           [CompetitionId |-> "c1", GameId |-> "g1", UserId |-> "u1",
            PickedTeam |-> "A", ConfidencePoints |-> 2,
            IsCorrect |-> NULL, PointsEarned |-> NULL]})
    /\ scores = InitScores
    /\ standings = EmptyBag
    /\ comps = InitCompetitions
    /\ lastCall = NoCall
    /\ nops = 0
    /\ runs = NoRuns
    /\ InitOthers

NextLockRace ==
    \/ \E h \in PickCallers, u \in Players :
         LockCheck(h, "createPick", "c1", "g2", u, "A", 2)
    \/ \E h \in PickCallers, b \in {<<"B", NULL>>, <<NoValue, 3>>} :
         LockCheck(h, "updatePick", "c1", "g1", "u1", b[1], b[2])
    \/ \E h \in PickCallers :
         LockCheck(h, "deletePick", "c1", "g1", "u1", NoValue, NULL)
    \/ \E h \in PickCallers : PickWrite(h)
    \/ \E status \in {"Locked", "Completed", "Active"} :
         UpdateCompetition("l1", "c1", status, NoValue, NULL)

SpecLockRace == InitLockRace /\ [][NextLockRace]_vars

(***************************************************************************)
(* League l1, two places, one member: requests to join from two clients    *)
(* served statement by statement, with updates of members and of the       *)
(* league.                                                                 *)
(***************************************************************************)
InitLeague ==
    /\ games = InitGames
    /\ picks = InitPicks
    /\ scores = InitScores
    /\ standings = EmptyBag
    /\ comps = InitCompetitions
    /\ lastCall = NoCall
    /\ nops = 0
    /\ runs = NoRuns
    /\ InitOthers

NextLeague ==
    \/ \E h \in MemberCallers, u \in {"u2", "u3", NoValue} : CapacityCheck(h, "l1", u)
    \/ \E h \in MemberCallers : InsertMember(h)
    \/ \E u \in Users, isActive \in {NULL, 0, 1} : UpdateLeagueMember("l1", u, isActive)
    \/ \E maxMembers \in {NULL, 1, 3} : UpdateLeague("l1", maxMembers, NULL)

SpecLeague == InitLeague /\ [][NextLeague]_vars

(***************************************************************************)
(* Notifications of the two members of league l1.                          *)
(***************************************************************************)
InitNotifications ==
    /\ games = InitGames
    /\ picks = InitPicks
    /\ scores = InitScores
    /\ standings = EmptyBag
    /\ comps = InitCompetitions
    /\ lastCall = NoCall
    /\ nops = 0
    /\ runs = NoRuns
    /\ pickCalls = NoPickCalls
    /\ leagues = InitLeagues
    /\ members = InitMembers \cup {[LeagueId |-> "l1", UserId |-> "u2", IsActive |-> 1]}
    /\ memberCalls = NoMemberCalls
    /\ notifications = <<>>
    /\ InitConnection

NextNotifications ==
    \/ \E u \in Players, complete \in BOOLEAN : CreateNotification(u, complete)
    \/ \E complete \in BOOLEAN : CreateBulkNotifications("l1", complete)
    \/ \E u \in Players, id \in 1..(Len(notifications) + 1), isRead \in {NULL, 0, 1} :
         UpdateNotification(u, id, isRead)
    \/ \E u \in Players : MarkAllNotificationsRead(u)

SpecNotifications == InitNotifications /\ [][NextNotifications]_vars

(***************************************************************************)
(* Two request handlers of one process calling getConnection, from a       *)
(* process that has no pool yet.                                           *)
(***************************************************************************)
\* what getConnection and closeConnection leave alone
database == <<games, picks, scores, comps, standings, lastCall, nops, runs,
              pickCalls, memberVars, notifications>>

InitHandlers ==
    /\ games = InitGames
    /\ picks = InitPicks
    /\ scores = InitScores
    /\ standings = EmptyBag
    /\ comps = InitCompetitions
    /\ lastCall = NoCall
    /\ nops = 0
    /\ runs = NoRuns
    /\ InitOthers

NextHandlers ==
    \/ \E h \in Handlers : GetConnection(h) /\ UNCHANGED database
    \/ \E h \in Handlers : PoolClosed(h) /\ UNCHANGED database
    \/ \E h \in Handlers : TokenReceived(h) /\ UNCHANGED database
    \/ \E h \in Handlers : Connected(h) /\ UNCHANGED database
    \/ \E h \in Handlers : HandlerReturns(h) /\ UNCHANGED database
    \/ TokenAges /\ UNCHANGED database
    \/ \E h \in Handlers : CloseConnection(h) /\ UNCHANGED database
    \/ \E h \in Handlers : ConnectionReset(h) /\ UNCHANGED database

SpecHandlers == InitHandlers /\ [][NextHandlers]_vars

(***************************************************************************)
(* Claims about calculateCompetitionScores.                                *)
(***************************************************************************)
\* calculateCompetitionScores(c) is the handler that returned last
Calculated(c) ==
    /\ lastCall.op = "calculateCompetitionScores"
    /\ lastCall.arg = c
    /\ lastCall.status = 200

PicksOf(c) == Where(picks, LAMBDA p : p.CompetitionId = c)

PicksOfUser(c, u) == {p \in PicksOf(c) : p.UserId = u}

ScoresOf(c) == Where(scores, LAMBDA s : s.CompetitionId = c)

\* the teams of game g with the strictly higher final score (none on a tie or
\* while a score is missing)
StrictWinners(g) ==
    IF g.HomeTeamScore = NULL \/ g.AwayTeamScore = NULL THEN {}
    ELSE IF g.HomeTeamScore > g.AwayTeamScore THEN {g.HomeTeam}
    ELSE IF g.AwayTeamScore > g.HomeTeamScore THEN {g.AwayTeam}
    ELSE {}

\* C1: after calculateCompetitionScores(c), every pick of c on a Final game has
\* IsCorrect = 1 exactly when it picked the team with the strictly higher
\* score and 0 otherwise, and PointsEarned is its ConfidencePoints when
\* correct and 0 when not.
C1_FinalPicksGraded ==
    \A c \in Competitions : Calculated(c) =>
        \A p \in PicksOf(c) :
            LET g == games[p.GameId]
            IN  g.Status = "Final" =>
                  /\ p.IsCorrect = IF p.PickedTeam \in StrictWinners(g) THEN 1 ELSE 0
                  /\ p.PointsEarned = IF p.IsCorrect = 1 THEN p.ConfidencePoints ELSE 0

\* a calculated competition holds a winning pick worth 2 points, a losing
\* pick, and a pick on a Final game that ended in a tie
C1_Witness ==
    /\ Calculated("c1")
    /\ \E p \in PicksOf("c1") : p.IsCorrect = 1 /\ p.PointsEarned = 2
    /\ \E p \in PicksOf("c1") :
          LET g == games[p.GameId]
          IN  /\ g.Status = "Final" /\ g.HomeTeamScore = g.AwayTeamScore
              /\ g.HomeTeamScore # NULL
              /\ p.IsCorrect = 0 /\ p.PointsEarned = 0

\* C2: after calculateCompetitionScores(c), every pick of c on a Scheduled or
\* InProgress game has IsCorrect = NULL and PointsEarned = NULL.
C2_UngradedPicksNull ==
    \A c \in Competitions : Calculated(c) =>
        \A p \in PicksOf(c) :
            games[p.GameId].Status \in {"Scheduled", "InProgress"} =>
                p.IsCorrect = NULL /\ p.PointsEarned = NULL

\* C3: after calculateCompetitionScores(c), every user with a pick in c has a
\* Score row (c, user) whose TotalPoints is the sum of the user's PointsEarned
\* (NULL as 0), whose CorrectPicks is the number of the user's picks with
\* IsCorrect = 1 and whose TotalPicks is the number of all the user's picks.
C3_ScoreTotals ==
    \A c \in Competitions : Calculated(c) =>
        \A u \in {p.UserId : p \in PicksOf(c)} :
            LET mine == PicksOfUser(c, u)
                rows == {s \in ScoresOf(c) : s.UserId = u}
            IN  /\ rows # {}
                /\ \A s \in rows :
                     /\ s.TotalPoints =
                          SumOf([p \in mine |-> IF p.PointsEarned = NULL THEN 0
                                                ELSE p.PointsEarned])
                     /\ s.CorrectPicks = Cardinality({p \in mine : p.IsCorrect = 1})
                     /\ s.TotalPicks = Cardinality(mine)

\* a user with two picks, one correct and one not yet graded, has a row
\* counting both picks
C3_Witness ==
    /\ Calculated("c1")
    /\ \E u \in Users :
         /\ \E p \in PicksOfUser("c1", u) : p.IsCorrect = 1
         /\ \E p \in PicksOfUser("c1", u) : p.IsCorrect = NULL
         /\ \E s \in ScoresOf("c1") : s.UserId = u /\ s.TotalPicks = 2 /\ s.CorrectPicks = 1

\* C5: a calculateCompetitionScores(c) that directly follows another
\* calculateCompetitionScores(c) leaves Picks and Scores as the first left them.
C5_SecondRunChangesNothing ==
    [][(lastCall'.op = "calculateCompetitionScores" /\ lastCall'.again)
          => (picks' = picks /\ scores' = scores)]_vars

\* the calculation ran twice in a row on a competition with a graded pick
\* and a ranked row
C5_Witness ==
    /\ Calculated("c1") /\ lastCall.again
    /\ \E p \in PicksOf("c1") : p.IsCorrect = 1
    /\ \E s \in ScoresOf("c1") : s.TotalPoints > 0 /\ s.Rank = 1

\* C6: after calculateCompetitionScores(c), the TotalPoints of the Score rows
\* of c add up to the PointsEarned of the graded picks of c.
C6_PointsConserved ==
    \A c \in Competitions : Calculated(c) =>
        SumOf([s \in ScoresOf(c) |-> s.TotalPoints * CopiesIn(s, scores)])
          = SumOf([p \in {q \in PicksOf(c) : q.IsCorrect # NULL} |->
                      IsNull0(p.PointsEarned) * CopiesIn(p, picks)])

\* C7: after calculateCompetitionScores(c), the users with a Score row of c
\* are exactly the users with a pick in c, one row each.
C7_RowsExactlyForPickers ==
    \A c \in Competitions : Calculated(c) =>
        /\ {s.UserId : s \in ScoresOf(c)} = {p.UserId : p \in PicksOf(c)}
        /\ \A s \in ScoresOf(c) :
             /\ CopiesIn(s, scores) = 1
             /\ \A t \in ScoresOf(c) : t.UserId = s.UserId => t = s

\* the Picks table with the grading of competition c undone
Ungraded(P, c) ==
    UpdateWhere(P, LAMBDA p : p.CompetitionId = c,
                   LAMBDA p : [p EXCEPT !.IsCorrect = NULL, !.PointsEarned = NULL])

\* the three totals of the Score rows of (c, u) in table S
TotalsOf(S, c, u) ==
    {<<s.TotalPoints, s.CorrectPicks, s.TotalPicks>> :
        s \in Where(S, LAMBDA x : x.CompetitionId = c /\ x.UserId = u)}

\* C9: when calculateCompetitionScores(c) runs after an updateGame that changed
\* the scores of a Final game with graded picks, the picks of c and the totals
\* of the Score rows of their users are what a first calculation (no pick of c
\* graded, no Score row of c) gives on the corrected games.
C9_RegradeEqualsFirstRun ==
    \A c \in Competitions : (Calculated(c) /\ lastCall.corrected # {}) =>
        LET P0 == Ungraded(picks, c)
            S0 == DeleteWhere(scores, LAMBDA s : s.CompetitionId = c)
        IN  /\ picks = CalcPicks(P0, games, c)
            /\ \A u \in {p.UserId : p \in PicksOf(c)} :
                 TotalsOf(scores, c, u) = TotalsOf(CalcScores(S0, P0, games, c), c, u)

\* a pick graded before the correction is graded wrong after it and its
\* user's total holds no points of the earlier grading
C9_Witness ==
    /\ Calculated("c1")
    /\ \E g \in lastCall.corrected : \E p \in PicksOf("c1") :
         /\ p.GameId = g /\ p.IsCorrect = 0 /\ p.PointsEarned = 0
         /\ p.PickedTeam = games[g].HomeTeam
         /\ PicksOfUser("c1", p.UserId) = {p}
         /\ \E s \in ScoresOf("c1") : s.UserId = p.UserId /\ s.TotalPoints = 0

(***************************************************************************)
(* Claims about the Score rows and their ranks.                            *)
(***************************************************************************)
\* row t sorts strictly before row s: more points, or as many and more correct picks
Better(t, s) ==
    \/ t.TotalPoints > s.TotalPoints
    \/ (t.TotalPoints = s.TotalPoints /\ t.CorrectPicks > s.CorrectPicks)

\* C4: after calculateCompetitionScores(c), the Rank of every Score row of c is
\* one more than the number of Score rows of c with more TotalPoints, or as
\* many TotalPoints and more CorrectPicks.
C4_StandardCompetitionRank ==
    \A c \in Competitions : Calculated(c) =>
        \A s \in ScoresOf(c) :
            s.Rank = 1 + SumOf([t \in ScoresOf(c) |->
                                   IF Better(t, s) THEN CopiesIn(t, scores) ELSE 0])

\* two rows tied on both keys share rank 1 and the third row, with fewer
\* points and more correct picks, has rank 3
C4_Witness ==
    /\ Calculated("c1")
    /\ \E a, b, d \in ScoresOf("c1") :
         /\ a.UserId # b.UserId
         /\ a.TotalPoints = b.TotalPoints /\ a.CorrectPicks = b.CorrectPicks
         /\ a.Rank = 1 /\ b.Rank = 1
         /\ d.TotalPoints < a.TotalPoints /\ d.CorrectPicks > a.CorrectPicks
         /\ d.Rank = 3

\* C8: there is at most one Score row per (competition, user).
C8_OneRowPerCompetitionUser ==
    \A s \in BagToSet(scores) :
        /\ CopiesIn(s, scores) = 1
        /\ \A t \in BagToSet(scores) : ScoreMatch(t, s) => t = s

\* u1 has a pick in c1, so the calculation of c1 wrote u1's row with 2 points;
\* an upsertScore then overwrote it with 1 point, and it is still the only row
C8_Witness ==
    /\ comps["c1"].ScoringCalculated = 1
    /\ lastCall.op = "upsertScore" /\ lastCall.status = 200
    /\ \E s \in ScoresOf("c1") : s.UserId = "u1" /\ s.TotalPoints = 1
    /\ Cardinality({s \in ScoresOf("c1") : s.UserId = "u1"}) = 1

(***************************************************************************)
(* Claims about calculateSeasonStandings.                                  *)
(***************************************************************************)
StandingsCalculated(l) ==
    /\ lastCall.op = "calculateSeasonStandings"
    /\ lastCall.arg = l
    /\ lastCall.status = 200

StandingsOf(l) == Where(standings, LAMBDA t : t.LeagueId = l)

\* the Completed competitions of league l in which user u has a Score row
CompletedWeeks(l, u) ==
    {c \in Competitions :
        /\ comps[c].LeagueId = l
        /\ comps[c].Status = "Completed"
        /\ \E s \in ScoresOf(c) : s.UserId = u}

\* C10: after calculateSeasonStandings(l), every SeasonStanding row of l has
\* WeeksParticipated equal to the number of Completed competitions of l in
\* which its user has a Score row, and TotalPoints equal to the points of
\* the user's Score rows in those competitions.
C10_OnlyCompletedWeeksCount ==
    \A l \in Leagues : StandingsCalculated(l) =>
        \A t \in StandingsOf(l) :
            /\ t.WeeksParticipated = Cardinality(CompletedWeeks(l, t.UserId))
            /\ t.TotalPoints =
                 SumOf([s \in {x \in BagToSet(scores) :
                                 /\ x.UserId = t.UserId
                                 /\ x.CompetitionId \in CompletedWeeks(l, t.UserId)}
                        |-> s.TotalPoints])

\* the points of user u's Score rows in the Completed competitions of league l
CompletedPoints(l, u) ==
    SumOf([s \in {x \in BagToSet(scores) :
                    x.UserId = u /\ x.CompetitionId \in CompletedWeeks(l, u)}
           |-> s.TotalPoints * CopiesIn(s, scores)])

\* the SeasonStanding rows a calculation of league l writes: those of the users
\* with a Score row in a Completed competition of l
WrittenStandings(l) == {t \in StandingsOf(l) : CompletedWeeks(l, t.UserId) # {}}

\* C11 (as stated): after calculateSeasonStandings(l), every row it wrote has
\* AveragePointsPerWeek exactly TotalPoints / WeeksParticipated.
C11_AverageIsQuotient ==
    \A l \in Leagues : StandingsCalculated(l) =>
        \A t \in WrittenStandings(l) :
            /\ t.TotalPoints = CompletedPoints(l, t.UserId)
            /\ t.WeeksParticipated = Cardinality(CompletedWeeks(l, t.UserId))
            /\ t.AveragePointsPerWeek * t.WeeksParticipated = 100 * t.TotalPoints

\* C11 (amended): after calculateSeasonStandings(l), every row it wrote has
\* TotalPoints the sum of the user's Score points over the Completed
\* competitions of l, WeeksParticipated their number, and
\* AveragePointsPerWeek the quotient rounded to the nearest hundredth, a
\* half rounding up.
C11_AverageIsRoundedQuotient ==
    \A l \in Leagues : StandingsCalculated(l) =>
        \A t \in WrittenStandings(l) :
            LET n == t.WeeksParticipated
                d == 2 * (t.AveragePointsPerWeek * n - 100 * t.TotalPoints)
            IN  /\ t.TotalPoints = CompletedPoints(l, t.UserId)
                /\ n = Cardinality(CompletedWeeks(l, t.UserId))
                /\ -n < d /\ d <= n

\* a row over three weeks whose quotient, 2/3, is not a whole number of
\* hundredths and is stored as 0.67
C11_Witness ==
    /\ StandingsCalculated("l1")
    /\ \E t \in WrittenStandings("l1") :
         t.WeeksParticipated = 3 /\ t.TotalPoints = 2 /\ t.AveragePointsPerWeek = 67

(***************************************************************************)
(* Claims about the statements of one calculation.                         *)
(***************************************************************************)
\* request r has executed some but not all of its grade, merge and rank statements
MidSequence(r) == runs[r].pc \in {"merge", "rank"}

\* C12: a calculation that failed at its grade, merge or rank statement, no
\* other request having started, leaves Picks and Scores as they were when
\* it started.
C12_FailedRunWroteNothing ==
    \A r \in Runs :
        (/\ runs[r].pc = "failed"
         /\ runs[r].at \in {"grade", "merge", "rank"}
         /\ \A q \in Runs \ {r} : runs[q].pc = "idle")
        => (picks = runs[r].before[1] /\ scores = runs[r].before[2])

\* C13: no two requests for the same competition are both between their
\* first and their last statement.
C13_RunsSerialized ==
    \A r, q \in Runs :
        (r # q /\ runs[r].c = runs[q].c) => ~(MidSequence(r) /\ MidSequence(q))

(***************************************************************************)
(* Claims about requests the handlers must refuse.                         *)
(***************************************************************************)
\* C14: calculateCompetitionScores on an identifier that names no
\* competition answers 404.
C14_UnknownCompetitionNotFound ==
    (lastCall.op = "calculateCompetitionScores" /\ lastCall.arg \notin DOMAIN comps)
        => lastCall.status = 404

\* the rows the handler returns as leaderboard: SELECT s.* FROM Scores s
\* INNER JOIN Users u ... WHERE s.CompetitionId = @competitionId
Leaderboard(c) == {s \in ScoresOf(c) : s.UserId \in Users}

\* C15: calculateCompetitionScores on a competition with no picks, or with
\* picks and no Final game, answers 200 with an empty leaderboard.
C15_EmptyLeaderboard ==
    \A c \in DOMAIN comps :
        (/\ lastCall.op = "calculateCompetitionScores" /\ lastCall.arg = c
         /\ \A g \in DOMAIN games : games[g].CompetitionId = c => games[g].Status # "Final")
        => (lastCall.status = 200 /\ Leaderboard(c) = {})

\* the picks of competition c on a game of another competition
ForeignPicks(c) == {p \in PicksOf(c) : games[p.GameId].CompetitionId # c}

\* C16: calculateCompetitionScores on a competition holding a pick on a game
\* of another competition does not succeed.
C16_ForeignPickAborts ==
    \A c \in DOMAIN comps :
        (/\ lastCall.op = "calculateCompetitionScores" /\ lastCall.arg = c
         /\ ForeignPicks(c) # {})
        => lastCall.status # 200

\* the competition is closed for picks: by status, or its lock date has passed
ClosedForPicks(c) == comps[c].Status \in {"Locked", "Completed"} \/ comps[c].LockPassed

\* the answer a pick request on competition c must get, 0 when the claim names none
RefusalOf(c) == IF c \notin DOMAIN comps THEN 404 ELSE IF ClosedForPicks(c) THEN 403 ELSE 0

OnePickPerGameUser ==
    \A p \in BagToSet(picks) :
        /\ CopiesIn(p, picks) = 1
        /\ \A q \in BagToSet(picks) : (q.GameId = p.GameId /\ q.UserId = p.UserId) => q = p

C19_ConfidenceInRange ==
    [][/\ \A p \in BagToSet(picks') : 1 <= p.ConfidencePoints /\ p.ConfidencePoints <= 20
       /\ \A c \in RouteCompetitions, g \in RouteGames, u \in Players,
             conf \in BodyConfidences \ {NULL} :
            (/\ lastCall'.op = "createPick" /\ lastCall'.arg = c
             /\ RefusalOf(c) = 0
             /\ ~(1 <= conf /\ conf <= 20)
             /\ ~\E p \in BagToSet(picks) : p.GameId = g /\ p.UserId = u
             /\ CreatePick(c, g, u, "A", conf))
            => (lastCall'.status = 400 /\ picks' = picks)]_vars

(***************************************************************************)
(* Claims about the status of a competition.                               *)
(***************************************************************************)
\* the place of a status on Upcoming -> Active -> Locked -> Completed
StatusOrder(st) ==
    CASE st = "Upcoming" -> 0 [] st = "Active" -> 1 [] st = "Locked" -> 2
      [] st = "Completed" -> 3 [] OTHER -> 4

\* a status may stay, move forward along the order, or become Cancelled
\* from a status before Completed
StatusMove(from, to) ==
    \/ to = from
    \/ (StatusOrder(from) < 3 /\ to = "Cancelled")
    \/ (StatusOrder(to) <= 3 /\ StatusOrder(from) < StatusOrder(to))

\* C20: the status of a competition only moves along Upcoming -> Active ->
\* Locked -> Completed, or to Cancelled from a status before Completed.
C20_StatusOnlyForward ==
    [][\A c \in DOMAIN comps : StatusMove(comps[c].Status, comps'[c].Status)]_vars

(***************************************************************************)
(* Claims about the status of a game and the grading of its picks.         *)
(***************************************************************************)
\* C21: a game that is Postponed or Cancelled does not become Final, and a
\* calculation leaves its picks with IsCorrect and PointsEarned NULL.
C21_PostponedNeverFinal ==
    [][\A g \in DOMAIN games :
          games[g].Status \in {"Postponed", "Cancelled"} =>
              /\ games'[g].Status # "Final"
              /\ lastCall'.op = "calculateCompetitionScores" =>
                   \A p \in BagToSet(picks') :
                       (p.GameId = g /\ p.CompetitionId = lastCall'.arg) =>
                           (p.IsCorrect = NULL /\ p.PointsEarned = NULL)]_vars

\* C22: a pick that has a non-NULL IsCorrect keeps a non-NULL IsCorrect
\* through every updateGame and calculateCompetitionScores.
C22_GradingIsTerminal ==
    [][lastCall'.op \in {"updateGame", "calculateCompetitionScores"} =>
          \A p \in BagToSet(picks), q \in BagToSet(picks') :
              (q.GameId = p.GameId /\ q.UserId = p.UserId /\ p.IsCorrect # NULL)
                  => q.IsCorrect # NULL]_vars

(***************************************************************************)
(* Claims about calculations of different competitions.                    *)
(***************************************************************************)
\* the Picks and Scores tables after calculateCompetitionScores(a) and then
\* calculateCompetitionScores(b) are those after b and then a (both orders
\* set the ScoringCalculated flag of a and of b)
CalculationsCommute ==
    \A pair \in {x \in SUBSET DOMAIN comps : Cardinality(x) = 2} :
      \A a \in {CHOOSE x \in pair : TRUE} : \A b \in pair \ {a} :
        \A Pa \in {CalcPicks(picks, games, a)}, Pb \in {CalcPicks(picks, games, b)} :
            \A Sa \in {CalcScores(scores, picks, games, a)},
               Sb \in {CalcScores(scores, picks, games, b)} :
                /\ CalcPicks(Pa, games, b) = CalcPicks(Pb, games, a)
                /\ CalcScores(Sa, Pa, games, b) = CalcScores(Sb, Pb, games, a)

\* C23: calculateCompetitionScores(a) leaves the picks, the Score rows and
\* the flag of every other competition unchanged, and calculating a then b
\* gives the tables that calculating b then a gives.
C23_OtherCompetitionsUntouched ==
    /\ [][lastCall'.op = "calculateCompetitionScores" =>
            \A b \in DOMAIN comps \ {lastCall'.arg} :
                /\ PicksOf(b)' = PicksOf(b)
                /\ ScoresOf(b)' = ScoresOf(b)
                /\ comps'[b] = comps[b]]_vars
    /\ []CalculationsCommute

\* c1 was calculated last and c2 before it: each holds graded picks and
\* two ranked Score rows
C23_Witness ==
    /\ Calculated("c1")
    /\ \A c \in {"c1", "c2"} :
         /\ Cardinality({s \in ScoresOf(c) : s.Rank # NULL}) >= 2
         /\ \A p \in PicksOf(c) : p.IsCorrect # NULL

(***************************************************************************)
(* Scores as derived state                                                 *)
(***************************************************************************)

\* deleteScore for every Score row of competition c: DELETE FROM Scores
\* WHERE Id = @id AND CompetitionId = @competitionId, once per row
DropScores(S, c) == DeleteWhere(S, LAMBDA s : s.CompetitionId = c)

\* the rows of competition c in a Scores table S
RowsOf(S, c) == Where(S, LAMBDA s : s.CompetitionId = c)

\* C24: in every state reached by pick, game and calculation operations,
\* calculateCompetitionScores after deleting every Score row of the
\* competition leaves the same Score rows (user, totals, rank) as
\* calculateCompetitionScores on the rows as they are.
C24_ScoresRebuildable ==
    \A c \in {"c1"} :
        \A kept \in {CalcScores(scores, picks, games, c)},
           rebuilt \in {CalcScores(DropScores(scores, c), picks, games, c)} :
            RowsOf(kept, c) = RowsOf(rebuilt, c)

(***************************************************************************)
(* Two concurrent calculations of one competition                          *)
(***************************************************************************)

\* both requests have executed all their statements, on competition c
BothDone(c) == \A r \in Runs : runs[r].pc = "done" /\ runs[r].c = c

\* C27: when two requests to calculateCompetitionScores for the same
\* competition have both executed their four statements, in any
\* interleaving and with no other writer, the picks and the Score rows are
\* those a single run leaves on the data either request started from.
C27_InterleavedRunsAsOne ==
    \A c \in {"c1", "c2"} :
        BothDone(c) =>
            \A r \in Runs :
                /\ picks = CalcPicks(runs[r].before[1], games, c)
                /\ scores = CalcScores(runs[r].before[2], runs[r].before[1], games, c)

\* the second request started between the grading UPDATE and the MERGE of
\* the first, and both ran to their end
C27_Witness ==
    /\ BothDone("c1")
    /\ runs["r2"].before[1] # runs["r1"].before[1]
    /\ runs["r2"].before[2] = runs["r1"].before[2]
    /\ \E s \in ScoresOf("c1") : s.Rank = 2

(***************************************************************************)
(* Bounds of a Score row                                                   *)
(***************************************************************************)

\* C28: in every state reached by createPick, updatePick, deletePick,
\* updateGame and calculateCompetitionScores, every Score row has
\* 0 <= CorrectPicks <= TotalPicks and 0 <= TotalPoints <= 20 * CorrectPicks.
C28_ScoreRowBounds ==
    \A s \in BagToSet(scores) :
        /\ 0 <= s.CorrectPicks /\ s.CorrectPicks <= s.TotalPicks
        /\ 0 <= s.TotalPoints /\ s.TotalPoints <= MaxConfidence * s.CorrectPicks

\* a calculation has written a row of a user with a correct pick that earned
\* points and a wrong one
C28_Witness ==
    /\ lastCall.op = "calculateCompetitionScores" /\ lastCall.status = 200
    /\ \E s \in ScoresOf("c1") :
         /\ 0 < s.CorrectPicks /\ s.CorrectPicks < s.TotalPicks
         /\ 0 < s.TotalPoints

(***************************************************************************)
(* Picks and the lock of a competition, statement by statement             *)
(***************************************************************************)

\* C25: once a competition is Locked or Completed, no step inserts,
\* modifies or deletes a pick of it, whatever the interleaving of the
\* statements of createPick, updatePick and deletePick with
\* updateCompetition.
C25_NoPickWriteAfterLock ==
    [][\A c \in DOMAIN comps :
          comps[c].Status \in {"Locked", "Completed"} => PicksOf(c)' = PicksOf(c)]_vars

(***************************************************************************)
(* Capacity of a league                                                    *)
(***************************************************************************)

\* C26: the active members of a league never outnumber its MaxMembers, in
\* every state reached by interleavings of the statements of
\* createLeagueMember with updateLeagueMember and updateLeague.
C26_CapacityRespected ==
    \A l \in DOMAIN leagues : CurrentMembers(members, l) <= leagues[l].MaxMembers

(***************************************************************************)
(* Notifications                                                           *)
(***************************************************************************)

\* C29: a notification has a ReadAt exactly when its IsRead is set; after
\* markAllNotificationsRead(user) the user has no unread notification and
\* the notifications of the other users are unchanged.
C29_ReadAtIffIsRead ==
    /\ [](\A i \in DOMAIN notifications :
             (notifications[i].ReadAt # NULL) <=> (notifications[i].IsRead = 1))
    /\ [][lastCall'.op = "markAllNotificationsRead" =>
             /\ DOMAIN notifications' = DOMAIN notifications
             /\ \A i \in DOMAIN notifications :
                  IF notifications[i].UserId = lastCall'.arg
                  THEN notifications'[i].IsRead = 1
                  ELSE notifications'[i] = notifications[i]]_vars

(***************************************************************************)
(* The connection pool                                                     *)
(***************************************************************************)

\* a handler issuing queries holds a pool that is open
PoolInUseIsOpen ==
    \A h \in Handlers : handlers[h].pc = "query" => pools[handlers[h].held] = "open"

AtMostOneOpenPool == Cardinality({id \in PoolIds : pools[id] = "open"}) <= 1

\* C30: under every interleaving of handlers calling getConnection, the
\* pool a handler was given is open for as long as the handler issues
\* queries on it, and at most one pool is open at any time.
C30_PoolOpenWhileUsed == PoolInUseIsOpen /\ AtMostOneOpenPool

====
